---- MODULE Spec2Model ----
(***************************************************************************)
(* Progression engine of the idle-game simulator: Simulator.run_simulation *)
(* (src/simulator.py) driving Workflow.simulate / Workflow._do_actions /   *)
(* Workflow._try_upgrade_character (src/workflow/workflow.py) over         *)
(* Location (src/workflow/location.py) and Balance                         *)
(* (src/workflow/balance.py).                                              *)
(*                                                                         *)
(* One state of the model is one position of the engine: the main loop of  *)
(* simulate (pc = "loop"), the session loop of _do_actions (pc = "burst"), *)
(* the pass over sorted_locations (pc = "pass"), the end of the session    *)
(* (pc = "close"), and the returned response (pc = "done").  Gold is a     *)
(* Python float: the model computes it as the IEEE 754 double the code     *)
(* computes (section Gold); the rates of the configurations are whole.     *)
(***************************************************************************)
EXTENDS Integers, Sequences, FiniteSets, TLC

\* seconds per simulated day, the literal 86400 of workflow.py
Day == 86400

\* the clock is not advanced past MaxTime (four simulated days)
MaxTime == 345600

\* number of simulate calls followed in one behaviour
MaxRuns == 2

----------------------------------------------------------------------------
\* Generic helpers

Max(S) == CHOOSE x \in S : \A y \in S : y <= x

Min(S) == CHOOSE x \in S : \A y \in S : x <= y

SeqToSet(s) == { s[i] : i \in 1..Len(s) }

RECURSIVE SortedSeq(_)
\* sorted(keys): the ascending sequence of a finite set of integers
SortedSeq(S) == IF S = {} THEN << >> ELSE << Min(S) >> \o SortedSeq(S \ {Min(S)})

\* the elements of the sequence s that lie in S, in the order of s
FilterSeq(s, S) == SelectSeq(s, LAMBDA x : x \in S)

\* the amount x counted in tenths: the energy and the taps of the tapping
\* engine, which recovers 0.1 per second, are counted in tenths
Tenths(x) == 10 * x

----------------------------------------------------------------------------
\* Gold: Balance.gold is a Python float (IEEE 754 binary64). A gold amount is
\* the record [tenths |-> T, dev |-> d] that stands for the double
\*     T / 10 + d / (5 * 2^53),
\* T the amount in tenths of a gold and d what the double is off that
\* amount: 3.5 is [35, 0], 489.99999999999994 = 490 - 2^-44 is [4900, -2560].
\* One tenth is 2^52 of the unit 1 / (5 * 2^53) and every double from 0.5
\* up is a whole number of units, so the arithmetic below is exact.

\* the float of the whole amount n
Whole(n) == [tenths |-> 10 * n, dev |-> 0]

\* 2^n modulo 5
TwoPowerMod5(n) ==
    CASE n % 4 = 0 -> 1 [] n % 4 = 1 -> 2 [] n % 4 = 2 -> 4 [] n % 4 = 3 -> 3

\* the binade of the positive amount T / 10 + d units: the j with
\* 2^(j-1) <= amount < 2^j, where the doubles lie 5 * 2^j units apart;
\* the amount reaches 2^(i-1), 5 * 2^i tenths, for every i from 0 to j
Binade(T, d) ==
    Cardinality({ i \in 0..25 : 5 * 2^i <= IF d < 0 THEN T - 1 ELSE T }) - 1

\* the double nearest to the positive amount T / 10 + d units, ties to the
\* even mantissa: r is the amount modulo the spacing of the doubles, r2
\* modulo twice the spacing. An amount below 0.5 is a double as it stands:
\* the amounts are sums and differences of doubles from 0.5 up, multiples
\* of 2^-53
RoundPositive(T, d) ==
    IF T < 5 \/ (T = 5 /\ d < 0) THEN [tenths |-> T, dev |-> d] ELSE
    LET j == Binade(T, d)
        spacing == 5 * 2^j
        r == (2^j * (((T % 5) * TwoPowerMod5(52 - j)) % 5) + d) % spacing
        r2 == (2^(j + 1) * (((T % 5) * TwoPowerMod5(51 - j)) % 5) + d) % (2 * spacing)
        below == d - r
    IN  [tenths |-> T,
         dev |-> IF r = 0 THEN d
                 ELSE IF 2 * r < spacing THEN below
                 ELSE IF 2 * r > spacing THEN below + spacing
                 ELSE IF r2 = r THEN below ELSE below + spacing]

\* the double nearest to the amount T / 10 + d units; a whole amount is a
\* double as it stands
RoundSigned(T, d) ==
    IF T % 10 = 0 /\ d = 0 THEN [tenths |-> T, dev |-> 0]
    ELSE IF T < 0 \/ (T = 0 /\ d < 0)
        THEN [tenths |-> T, dev |-> 0 - RoundPositive(0 - T, 0 - d).dev]
    ELSE RoundPositive(T, d)

\* the result of one float operation whose exact value is T / 10 + d units:
\* the exact value is computed once, then rounded
FloatRound(T, d) == CHOOSE f \in { RoundSigned(x, e) : x \in {T}, e \in {d} } : TRUE

\* a + b of two floats
FloatAdd(a, b) == FloatRound(a.tenths + b.tenths, a.dev + b.dev)

\* a * k of a float and a whole number
FloatTimes(a, k) == FloatRound(a.tenths * k, a.dev * k)

\* m * 0.7 of a whole number m: the double 0.7 is 7 tenths less 2 units
TimesSevenTenths(m) == FloatRound(7 * m, 0 - 2 * m)

\* a < b of two floats
FloatLess(a, b) ==
    a.tenths < b.tenths \/ (a.tenths = b.tenths /\ a.dev < b.dev)

----------------------------------------------------------------------------
\* Configurations (SimulationConfig, src/models/config.py)

LocationLevel(c, x) == [cost |-> c, xp_reward |-> x]

UserLevelConfig(x, g, k) == [xp_required |-> x, gold_per_sec |-> g, keys_reward |-> k]

LocationRarityConfig(l, k) == [user_level_required |-> l, keys_reward |-> k]

LocationConfig(r, lv) == [rarity |-> r, levels |-> lv]

\* location_rarity_config: common locations need character level 1 and pay
\* 1 key, rare locations need character level 2 and pay 2 keys
RarityConfig ==
    [common |-> LocationRarityConfig(1, 1), rare |-> LocationRarityConfig(2, 2)]

CommonOne == LocationConfig("common", (1 :> LocationLevel(100, 10)))

CommonTwo ==
    LocationConfig("common", (1 :> LocationLevel(100, 10)) @@ (2 :> LocationLevel(300, 120)))

RareOne == LocationConfig("rare", (1 :> LocationLevel(50000, 30)))

RareTwo ==
    LocationConfig("rare", (1 :> LocationLevel(100, 10)) @@ (2 :> LocationLevel(300, 30)))

LocationOptions == {CommonOne, CommonTwo, RareOne, RareTwo}

\* the location dictionaries: one or two locations, ids from 1
LocationTables ==
    { (1 :> a) : a \in LocationOptions }
      \cup { (1 :> a) @@ (2 :> b) : a \in LocationOptions, b \in LocationOptions }

\* the insertion orders of a dictionary with the keys of locs
InsertionOrders(locs) ==
    IF DOMAIN locs = {1} THEN { << 1 >> } ELSE { << 1, 2 >>, << 2, 1 >> }

UserLevelTables ==
    { (1 :> UserLevelConfig(0, 1, 0)),
      (1 :> UserLevelConfig(0, 1, 0)) @@ (2 :> UserLevelConfig(100, 2, 5)),
      (1 :> UserLevelConfig(0, 1, 0)) @@ (2 :> UserLevelConfig(20, 2, 5))
          @@ (3 :> UserLevelConfig(40, 4, 10)) }

CooldownTables ==
    { (1 :> 10) @@ (2 :> 20),
      (1 :> 3600) @@ (2 :> 90000),
      (1 :> 10) }

CheckSchedules == { << 0 >>, << 30, 43200 >>, << 43200, 0 >> }

\* the cooldown table and the check schedule of a configuration: every
\* table with every schedule above, and a schedule whose check-ins lie
\* closer together than a session lasts, with a cooldown that ends between
\* the second check-in and the end of the first session
TimingOptions ==
    (CooldownTables \X CheckSchedules)
        \cup { << (1 :> 45) @@ (2 :> 45), << 0, 30 >> >> }

StartingBalances ==
    { [gold |-> 1000, xp |-> 1, keys |-> 1],
      [gold |-> 0, xp |-> 1, keys |-> 1],
      [gold |-> 1000, xp |-> 150, keys |-> 1] }

GameDurations == {60}

Algorithms == {"sequential", "first_available"}

\* the insertion orders of config.locations tried for the first Simulator:
\* every order under First-available, the ascending one under Sequential
\* (a later Simulator is built with any order, see NewSimulator)
OrdersFor(locs, alg) ==
    IF alg = "sequential" THEN { SortedSeq(DOMAIN locs) } ELSE InsertionOrders(locs)

\* TappingConfig (config.tapping); None is the record NoTappingConfig
TappingConfig(on, cap, speed, coef) ==
    [present |-> TRUE, is_tapping |-> on, max_energy_capacity |-> cap,
     tap_speed |-> speed, tap_coef |-> coef]

\* Workflow.tapping_config = None, SimulationConfig.tapping = None
NoTappingConfig == [present |-> FALSE]

\* the tapping configurations tried with the starting balance sb: tapping
\* switched on is tried for the players that start without gold
TappingOptions(sb) ==
    IF sb.gold = 0 THEN { NoTappingConfig, TappingConfig(TRUE, 700, 3, 1) }
                   ELSE { NoTappingConfig }

Configs ==
    UNION { { [locations |-> locs, order |-> ord, location_cooldowns |-> tm[1],
               location_rarity_config |-> RarityConfig,
               user_levels |-> ul, check_schedule |-> tm[2],
               economy |-> [base_gold_per_sec |-> 1, earn_coefficient |-> 1,
                            starting_balance |-> sb, game_duration |-> gd],
               simulation_algorithm |-> alg, tapping |-> tp] :
                 ord \in OrdersFor(locs, alg), tm \in TimingOptions,
                 ul \in UserLevelTables,
                 gd \in GameDurations, tp \in TappingOptions(sb) } :
            locs \in LocationTables, alg \in Algorithms,
            sb \in StartingBalances }

----------------------------------------------------------------------------
VARIABLES
    config,            \* Simulator.config
    balance,           \* Workflow.balance
    locations,         \* Workflow.locations
    tapping_config,    \* Workflow.tapping_config
    pc,                \* position of the engine
    timestamp,         \* simulate: timestamp
    history,           \* simulate: history
    stop_reason,       \* simulate: stop_reason
    t,                 \* _do_actions: t
    session_end,       \* _do_actions: session_end
    queue,             \* _do_actions: the part of sorted_locations not yet visited
    any_upgrade_made,  \* _do_actions: any_upgrade_made
    response,          \* the SimulationResponse returned by the last simulate call
    runs,              \* simulate calls so far
    instance_runs,     \* simulate calls so far on the current Simulator instance
    first_response,    \* the SimulationResponse of the first simulate call
    first_order,       \* the order of config.locations in that call
    tap_config,        \* TappingEngine.config
    current_energy,    \* TappingEngine.current_energy, in tenths of a unit
    days_data,         \* TappingEngine.days_data
    session_times,     \* the caller's list passed to simulate_sessions
    session_duration,  \* the session_duration argument, in minutes
    tap_pc,            \* the position inside simulate_sessions
    last_session_end,  \* simulate_sessions: last_session_end
    session_idx,       \* simulate_sessions: position of the for loop, from 1
    session,           \* _simulate_session: the TapSession being filled
    remaining_time,    \* _simulate_session: remaining_time
    current_time,      \* _simulate_session: current_time
    active_tapping,    \* _simulate_session: active_tapping
    total_taps_in_session,  \* _simulate_session, in tenths of a tap
    rest_i,            \* _simulate_session: seconds of the closing for loop done
    result             \* what simulate_sessions returned

\* the state of the Simulator and its Workflow
wfvars == << config, balance, locations, tapping_config, pc, timestamp, history,
             stop_reason, t, session_end, queue, any_upgrade_made, response,
             runs, instance_runs, first_response, first_order >>

\* the state of the TappingEngine and of its simulate_sessions call
tapvars == << tap_config, current_energy, days_data, session_times, session_duration,
              tap_pc, last_session_end, session_idx, session, remaining_time,
              current_time, active_tapping, total_taps_in_session, rest_i, result >>

vars == << wfvars, tapvars >>

\* the tables of the Workflow, as setup_workflow copies them from the configuration
cooldowns == config.location_cooldowns

user_levels == config.user_levels

check_schedule == config.check_schedule

economy == config.economy

simulation_algorithm == config.simulation_algorithm

NoResponse == [timestamp |-> -1, history |-> << >>, stop_reason |-> [kind |-> "none"]]

\* Balance(): the dataclass defaults
NewBalance == [gold |-> Whole(0), xp |-> 0, keys |-> 0, user_level |-> 1, earn_per_sec |-> 0]

\* Location(...) as _setup_locations constructs it
NewLocation(lc, rarity_config) ==
    [rarity |-> lc.rarity,
     min_character_level |-> rarity_config[lc.rarity].user_level_required,
     levels |-> lc.levels, keys |-> rarity_config[lc.rarity].keys_reward,
     available |-> TRUE, current_level |-> 0, cooldown_until |-> 0]

\* the rarity configuration of location i of the configuration cfg
RarityOf(cfg, i) == cfg.location_rarity_config[cfg.locations[i].rarity]

\* _setup_locations: locations without levels are left out
SetupLocations(cfg) ==
    [i \in { j \in DOMAIN cfg.locations : DOMAIN cfg.locations[j].levels # {} }
        |-> NewLocation(cfg.locations[i], cfg.location_rarity_config)]

\* the dictionary stored under "locations" in a State
LocationSnapshot(locs) ==
    [i \in DOMAIN locs |-> [current_level |-> locs[i].current_level,
                            available |-> locs[i].available,
                            cooldown_until |-> locs[i].cooldown_until]]

\* a State of the history
StateRecord(ts, bal, locs) ==
    [timestamp |-> ts, balance |-> bal, locations |-> LocationSnapshot(locs),
     actions |-> << >>]

\* current_history["actions"].append(...) with current_history = history[-1]
AppendActions(h, acts) == [h EXCEPT ![Len(h)].actions = @ \o acts]

\* Location methods
GetUpgradeCost(loc) ==
    IF loc.current_level + 1 \in DOMAIN loc.levels
        THEN loc.levels[loc.current_level + 1].cost ELSE 0

GetUpgradeXpReward(loc) ==
    IF loc.current_level + 1 \in DOMAIN loc.levels
        THEN loc.levels[loc.current_level + 1].xp_reward ELSE 0

\* is_last_upgrade comparing with the level the location already has
IsLastUpgradeOffByOne(loc) == Max(DOMAIN loc.levels) = loc.current_level

IsLastUpgrade(loc) == Max(DOMAIN loc.levels) = loc.current_level + 1

GetUpgradeKeysReward(loc) == IF IsLastUpgrade(loc) THEN loc.keys ELSE 0

\* the condition of the main loop of simulate
AnyAvailable == \E i \in DOMAIN locations : locations[i].available

\* t % 86400 in self.check_schedule
IsCheckTime(ts) == (ts % Day) \in SeqToSet(check_schedule)

----------------------------------------------------------------------------
\* Simulator(config): a Workflow with an empty location dictionary and a
\* default Balance
WorkflowIdle ==
    /\ balance = NewBalance
    /\ locations = << >>
    /\ tapping_config = NoTappingConfig
    /\ pc = "idle"
    /\ timestamp = 0
    /\ history = << >>
    /\ stop_reason = [kind |-> "none"]
    /\ t = 0
    /\ session_end = 0
    /\ queue = << >>
    /\ any_upgrade_made = FALSE
    /\ response = NoResponse
    /\ runs = 0
    /\ instance_runs = 0
    /\ first_response = NoResponse

----------------------------------------------------------------------------
\* TappingEngine (src/workflow/tapping.py). Energy, taps and gold are
\* counted in tenths, so that the recovery of 0.1 energy per second is 1.

\* the longest list of session start times tried
MaxSessions == 2


\* max_energy_capacity and tap_speed of the configurations tried: a capacity
\* below the beginners' range with and without taps, the default
\* configuration, and a capacity above 700 tapped slowly and fast
TapShapes == { << 5, 0 >>, << 5, 3 >>, << 700, 3 >>, << 1000, 3 >>, << 1000, 200 >> }

\* the tapping configurations: the fields of TappingConfig, and gold_per_tap
\* for the objects that were given this attribute
TapConfigs ==
    LET plain == { [is_tapping |-> on, max_energy_capacity |-> sh[1],
                    tap_speed |-> sh[2], tap_coef |-> 1] :
                      on \in BOOLEAN, sh \in TapShapes }
    IN  plain \cup { c @@ [gold_per_tap |-> 1] : c \in plain }

\* the session start times tried, in seconds
SessionStarts == {0, 30, Day}

\* the lists of session start times, sorted or not, with or without repeats
SessionTimeLists ==
    UNION { [1..n -> SessionStarts] : n \in 0..MaxSessions }

\* the session durations tried, in minutes
SessionDurations == {0, 1, 6}

\* two sessions of the list times overlap when they last the given minutes
Overlapping(times, minutes) ==
    \E i, j \in DOMAIN times :
        i # j /\ times[i] <= times[j] /\ times[j] < times[i] + 60 * minutes

\* the arguments tried: the engine computes in binary floating point and the
\* model in exact tenths; sessions that overlap are tried with a duration of
\* one minute, where no comparison of the engine is decided by rounding
TapArguments(times, minutes) == minutes <= 1 \/ ~Overlapping(times, minutes)

RECURSIVE InsertSorted(_, _)
\* the sorted sequence s with x put in its place
InsertSorted(s, x) ==
    IF s = << >> THEN << x >>
    ELSE IF x <= Head(s) THEN << x >> \o s
    ELSE << Head(s) >> \o InsertSorted(Tail(s), x)

RECURSIVE SortList(_)
\* list.sort()
SortList(s) == IF s = << >> THEN << >> ELSE InsertSorted(SortList(Tail(s)), Head(s))

\* max_tapping_time, in seconds
MaxTappingTime(cfg) == IF cfg.max_energy_capacity <= 700 THEN 300 ELSE 420

\* max_taps_for_beginners, in taps
MaxTapsForBeginners(cfg) ==
    IF cfg.max_energy_capacity <= 700
        THEN Min({ cfg.max_energy_capacity, 500 + ((200 * cfg.max_energy_capacity) \div 700) })
        ELSE cfg.max_energy_capacity

\* the energy e after one second of recovery
Recovered(cfg, e) ==
    IF e < Tenths(cfg.max_energy_capacity)
        THEN e + Min({ 1, Tenths(cfg.max_energy_capacity) - e })
        ELSE e

\* the energy e after the pause of time_passed seconds between two sessions
RecoveredBetween(cfg, e, time_passed) ==
    e + Min({ time_passed, Tenths(cfg.max_energy_capacity) - e })

\* TapsPerSecond without the limit of taps for beginners
TapsPerSecondUncapped(cfg, e, total) == Min({ Tenths(cfg.tap_speed), e })

\* taps_per_second with the energy e after total taps in the session
TapsPerSecond(cfg, e, total) ==
    LET by_energy == Min({ Tenths(cfg.tap_speed), e }) IN
    IF cfg.max_energy_capacity <= 700
        THEN Min({ by_energy, Tenths(MaxTapsForBeginners(cfg)) - total })
        ELSE by_energy

\* TapSession(start_time, duration) with its first energy_history entry
TapSession(start_time, duration, e) ==
    [start_time |-> start_time, duration |-> duration, energy_used |-> 0,
     taps_count |-> 0, gold_earned |-> 0, energy_history |-> << << start_time, e >> >>]

NoSession == [start_time |-> 0 - 1]

\* _get_or_create_day: the days with a TapDay for day_number
GetOrCreateDay(days, day_number) ==
    IF \E k \in 1..Len(days) : days[k].day = day_number
        THEN days
        ELSE Append(days, [day |-> day_number, sessions |-> << >>, total_taps |-> 0,
                           total_energy |-> 0, total_gold |-> 0])

\* the days after the session s is added to the TapDay of day_number
AddSession(days, day_number, s) ==
    LET ds == GetOrCreateDay(days, day_number)
        k == CHOOSE k \in 1..Len(ds) :
                 ds[k].day = day_number /\ \A j \in 1..(k - 1) : ds[j].day # day_number
    IN  [ds EXCEPT ![k] = [@ EXCEPT !.sessions = Append(@, s),
                                     !.total_taps = @ + s.taps_count,
                                     !.total_energy = @ + s.energy_used,
                                     !.total_gold = @ + s.gold_earned]]

\* the locals of simulate_sessions when no call is under way
NoCall ==
    /\ last_session_end = 0
    /\ session_idx = 0
    /\ session = NoSession
    /\ remaining_time = 0
    /\ current_time = 0
    /\ active_tapping = FALSE
    /\ total_taps_in_session = 0
    /\ rest_i = 0
    /\ result = << >>

\* no TappingEngine exists
TapOff ==
    /\ tap_config = NoTappingConfig
    /\ current_energy = 0
    /\ days_data = << >>
    /\ session_times = << >>
    /\ session_duration = 0
    /\ tap_pc = "off"
    /\ NoCall

\* Simulator(config)
Init ==
    /\ config \in Configs
    /\ first_order = config.order
    /\ WorkflowIdle
    /\ TapOff
\* SimulateBalance that leaves the gold of the Balance object as it is
SimulateBalanceKeepsGold(bal) ==
    [gold |-> bal.gold,
     xp |-> economy.starting_balance.xp,
     keys |-> economy.starting_balance.keys,
     user_level |-> bal.user_level,
     earn_per_sec |-> user_levels[bal.user_level].gold_per_sec]

\* the balance after the first lines of simulate: gold, xp and keys come from
\* the starting balance, earn_per_sec from the level table; user_level is
\* whatever the Balance object holds
SimulateBalance(bal) ==
    [gold |-> Whole(economy.starting_balance.gold),
     xp |-> economy.starting_balance.xp,
     keys |-> economy.starting_balance.keys,
     user_level |-> bal.user_level,
     earn_per_sec |-> user_levels[bal.user_level].gold_per_sec]

\* Simulator.run_simulation up to the first test of the main loop:
\* setup_workflow, then the prologue of Workflow.simulate
RunSimulation ==
    /\ pc \in {"idle", "done"}
    /\ runs < MaxRuns
    /\ locations' = SetupLocations(config)
    /\ balance' = SimulateBalance(balance)
    /\ timestamp' = 0
    /\ history' = << StateRecord(0, balance', locations') >>
    /\ stop_reason' = [kind |-> "none"]
    /\ pc' = "loop"
    /\ runs' = runs + 1
    /\ instance_runs' = instance_runs + 1
    /\ t' = 0 /\ session_end' = 0 /\ queue' = << >> /\ any_upgrade_made' = FALSE
    /\ UNCHANGED << config, tapping_config, response, first_response, first_order >>
    /\ UNCHANGED tapvars

\* another Simulator is constructed for an equal configuration: the same
\* tables, with config.locations built in any insertion order (two Python
\* dictionaries are equal whatever their insertion orders)
NewSimulator ==
    /\ pc = "done"
    /\ runs < MaxRuns
    /\ \E ord \in InsertionOrders(config.locations) :
          config' = [config EXCEPT !.order = ord]
    /\ balance' = NewBalance
    /\ locations' = << >>
    /\ tapping_config' = NoTappingConfig
    /\ instance_runs' = 0
    /\ pc' = "idle"
    /\ UNCHANGED << timestamp, history, stop_reason, t, session_end,
                    queue, any_upgrade_made, response, runs, first_response, first_order >>
    /\ UNCHANGED tapvars

\* the check-in instants and MaxTime that lie after ts
LaterInstants(ts) ==
    { x \in { d * Day + c : d \in 0..(MaxTime \div Day), c \in SeqToSet(check_schedule) }
                \cup {MaxTime} : x > ts }

\* iterations of the main loop at instants that are no check-in: _do_actions
\* does nothing and the clock advances by one; the run of such iterations up
\* to the next check-in instant is taken as one step
IdleTick ==
    /\ pc = "loop"
    /\ AnyAvailable
    /\ ~IsCheckTime(timestamp)
    /\ timestamp < MaxTime
    /\ timestamp' = Min(LaterInstants(timestamp))
    /\ UNCHANGED << config, balance, locations, tapping_config, pc, history,
                    stop_reason, t, session_end, queue, any_upgrade_made,
                    response, runs, instance_runs, first_response, first_order >>
    /\ UNCHANGED tapvars

RECURSIVE ScanLocations(_, _, _)
\* the scan of simulate for the current and the next location; 0 stands for None
ScanLocations(ids, locs, current) ==
    IF ids = << >> THEN [current |-> current, next |-> 0]
    ELSE IF locs[Head(ids)].available THEN ScanLocations(Tail(ids), locs, Head(ids))
    ELSE IF current # 0 /\ Head(ids) > current THEN [current |-> current, next |-> Head(ids)]
    ELSE ScanLocations(Tail(ids), locs, current)

\* StopReason with the test for the exhausted catalog inverted
StopReasonInverted(locs, bal) ==
    LET scan == ScanLocations(SortedSeq(DOMAIN locs), locs, 0) IN
    IF scan.current # 0
        THEN [kind |-> "limit", location |-> Max(DOMAIN locs)]
    ELSE IF scan.next # 0
        THEN [kind |-> "gate", location |-> scan.current, user_level |-> bal.user_level,
              next |-> scan.next, required |-> locs[scan.next].min_character_level]
    ELSE [kind |-> "stopped"]

\* the stop reason simulate derives from the final state
StopReason(locs, bal) ==
    LET scan == ScanLocations(SortedSeq(DOMAIN locs), locs, 0) IN
    IF scan.current = 0
        THEN [kind |-> "limit", location |-> Max(DOMAIN locs)]
    ELSE IF scan.next # 0
        THEN [kind |-> "gate", location |-> scan.current, user_level |-> bal.user_level,
              next |-> scan.next, required |-> locs[scan.next].min_character_level]
    ELSE [kind |-> "stopped"]

\* the main loop ends and simulate returns its SimulationResponse
LoopExit ==
    /\ pc = "loop"
    /\ ~AnyAvailable
    /\ stop_reason' = StopReason(locations, balance)
    /\ response' = [timestamp |-> timestamp, history |-> history,
                    stop_reason |-> stop_reason']
    /\ first_response' = IF runs = 1 THEN response' ELSE first_response
    /\ UNCHANGED first_order
    /\ pc' = "done"
    /\ UNCHANGED << config, balance, locations, tapping_config, timestamp, history,
                    t, session_end, queue, any_upgrade_made, runs, instance_runs >>
    /\ UNCHANGED tapvars

----------------------------------------------------------------------------
\* _do_actions at a check-in instant

\* LastCheck that never looks at the day before
LastCheckSameDayOnly(tt) ==
    LET current_day_start == tt - (tt % Day)
        earlier == { x \in { current_day_start + c : c \in SeqToSet(check_schedule) } : x < tt }
    IN  IF earlier = {} THEN 0 ELSE Max(earlier)

\* the instant of the previous check-in as _do_actions computes it
LastCheck(tt) ==
    LET current_day_start == tt - (tt % Day)
        earlier == { x \in { current_day_start + c : c \in SeqToSet(check_schedule) } : x < tt }
        last_check == IF earlier = {} THEN 0 ELSE Max(earlier)
    IN  IF last_check = 0
            THEN IF tt < Day THEN 0
                 ELSE (current_day_start - Day) + Max(SeqToSet(check_schedule))
            ELSE last_check

IsFirstSessionOfDay(tt) == tt = Min(SeqToSet(check_schedule)) + (tt - (tt % Day))

IsFirstLogin(tt) == IsFirstSessionOfDay(tt) /\ tt < Day

\* the attribute name of the configuration object tc holds None
IsNone(tc, name) == "none" \in DOMAIN tc /\ name \in tc.none

\* the lump tapping income max_energy * 0.7 * gold_per_tap, a float, with
\* 700 and 10.0 for the attributes that hold None; raised: the object has
\* no attribute gold_per_tap (AttributeError)
TappingGold(tc) ==
    IF ~IsNone(tc, "gold_per_tap") /\ "gold_per_tap" \notin DOMAIN tc
        THEN [raised |-> TRUE, gold |-> Whole(0)]
        ELSE LET max_energy == IF IsNone(tc, "max_energy_capacity")
                                  THEN 700 ELSE tc.max_energy_capacity
                 gold_per_tap == IF IsNone(tc, "gold_per_tap") THEN 10 ELSE tc.gold_per_tap
             IN  [raised |-> FALSE,
                  gold |-> FloatTimes(TimesSevenTenths(max_energy), gold_per_tap)]

\* IncomeAction that records the gold after the income as gold_before
IncomeActionBeforeIsAfter(type, tt, bal, change) ==
    [type |-> type, timestamp |-> tt,
     gold_before |-> FloatAdd(bal.gold, change), gold_change |-> change,
     gold_after |-> FloatAdd(bal.gold, change),
     xp_before |-> bal.xp, xp_change |-> 0, xp_after |-> bal.xp,
     keys_before |-> bal.keys, keys_change |-> 0, keys_after |-> bal.keys]

\* the action record of an income of change gold at tt
IncomeAction(type, tt, bal, change) ==
    [type |-> type, timestamp |-> tt,
     gold_before |-> bal.gold, gold_change |-> change,
     gold_after |-> FloatAdd(bal.gold, change),
     xp_before |-> bal.xp, xp_change |-> 0, xp_after |-> bal.xp,
     keys_before |-> bal.keys, keys_change |-> 0, keys_after |-> bal.keys]

\* the tapping income of the first session of a day: the actions recorded;
\* raised: reading gold_per_tap raised before anything was recorded
TappingActions(tt, bal) ==
    IF IsFirstSessionOfDay(tt) /\ tapping_config.present /\ tapping_config.is_tapping
        THEN IF TappingGold(tapping_config).raised
                THEN [actions |-> << >>, raised |-> TRUE]
                ELSE [actions |-> << IncomeAction("tapping_income", tt, bal,
                                                  TappingGold(tapping_config).gold) >>,
                      raised |-> FALSE]
        ELSE [actions |-> << >>, raised |-> FALSE]

\* PassiveActions of an engine that pays no passive income
PassiveActionsNone(tt, bal) == << >>

\* the passive income since the previous check-in: the actions recorded
PassiveActions(tt, bal) ==
    LET time_passed == tt - LastCheck(tt) IN
    IF time_passed > 0 /\ ~IsFirstLogin(tt)
        THEN << IncomeAction("passive_income", tt, bal,
                             Whole(bal.earn_per_sec * time_passed)) >>
        ELSE << >>

\* the exception of the tapping income reaches simulate: no State is
\* appended and the clock advances
CheckInRaise ==
    /\ pc' = "loop"
    /\ timestamp' = timestamp + 1
    /\ queue' = queue

\* the balance after the income actions acts
AfterIncome(bal, acts) ==
    IF acts = << >> THEN bal ELSE [bal EXCEPT !.gold = acts[Len(acts)].gold_after]

\* the player logs in: tapping income, passive income, and the session
\* begins; when the tapping income raises, the exception reaches simulate
\* before anything has changed
CheckIn ==
    /\ pc = "loop"
    /\ AnyAvailable
    /\ IsCheckTime(timestamp)
    /\ timestamp < MaxTime
    /\ LET tap == TappingActions(timestamp, balance)
           bal1 == AfterIncome(balance, tap.actions)
           pas == PassiveActions(timestamp, bal1)
       IN  IF tap.raised
              THEN /\ CheckInRaise
                   /\ UNCHANGED << balance, history, t, session_end >>
              ELSE /\ balance' = AfterIncome(bal1, pas)
                   /\ history' = AppendActions(history, tap.actions \o pas)
                   /\ t' = timestamp
                   /\ session_end' = timestamp + economy.game_duration
                   /\ pc' = "burst"
                   /\ UNCHANGED << timestamp, queue >>
    /\ UNCHANGED << config, locations, tapping_config, stop_reason,
                    any_upgrade_made, response, runs, instance_runs, first_response, first_order >>
    /\ UNCHANGED tapvars

\* AvailableLocations without the cooldown test
AvailableLocationsIgnoringCooldown(tt) ==
    { i \in DOMAIN locations : locations[i].available }

\* locations ready for an upgrade at tt
AvailableLocations(tt) ==
    { i \in DOMAIN locations : locations[i].available /\ locations[i].cooldown_until <= tt }

\* LocationsInCooldown without the end of the session
LocationsInCooldownUnbounded(tt) ==
    { i \in DOMAIN locations :
        /\ locations[i].available
        /\ locations[i].cooldown_until > tt }

\* available locations whose cooldown ends inside the session
LocationsInCooldown(tt) ==
    { i \in DOMAIN locations :
        /\ locations[i].available
        /\ locations[i].cooldown_until > tt
        /\ locations[i].cooldown_until < session_end }

\* sorted_locations: by id for the Sequential policy, in dictionary order otherwise
SortedLocations(ready) ==
    IF simulation_algorithm = "sequential"
        THEN SortedSeq(ready) ELSE FilterSeq(config.order, ready)

\* nothing can be upgraded at t: leave the session loop, or fast-forward t to
\* the nearest end of a cooldown inside the session
SkipOrBreak ==
    IF LocationsInCooldown(t) = {}
        THEN pc' = "close" /\ t' = t
        ELSE /\ t' = Min({ locations[i].cooldown_until : i \in LocationsInCooldown(t) })
             /\ pc' = "burst"

\* the head of the session loop: while t < session_end
BurstTop ==
    /\ pc = "burst"
    /\ IF t >= session_end
          THEN pc' = "close" /\ UNCHANGED << t, queue, any_upgrade_made >>
       ELSE IF AvailableLocations(t) = {}
          THEN SkipOrBreak /\ UNCHANGED << queue, any_upgrade_made >>
       ELSE /\ queue' = SortedLocations(AvailableLocations(t))
            /\ any_upgrade_made' = FALSE
            /\ pc' = "pass"
            /\ t' = t
    /\ UNCHANGED << config, balance, locations, tapping_config, timestamp, history,
                    stop_reason, session_end, response, runs, instance_runs,
                    first_response, first_order >>
    /\ UNCHANGED tapvars

\* PreviousLocationsMaxed that takes for the previous locations those inserted
\* into the dictionary before index
PreviousLocationsMaxedByInsertion(index) ==
    \A k \in 1..Len(config.order), n \in 1..Len(config.order) :
        (config.order[n] = index /\ k < n) => ~locations[config.order[k]].available

\* PreviousLocationsMaxed that asks only that the lower ids have been started
PreviousLocationsStarted(index) ==
    \A i \in DOMAIN locations : i < index => locations[i].current_level > 0

\* Sequential policy: every location with a lower id is no longer available
PreviousLocationsMaxed(index) ==
    \A i \in DOMAIN locations : i < index => ~locations[i].available

LevelUpAction(tt, old, new) ==
    [type |-> "level_up", timestamp |-> tt,
     old_level |-> old.user_level, new_level |-> new.user_level,
     gold_before |-> old.gold, gold_change |-> Whole(0), gold_after |-> new.gold,
     xp_before |-> old.xp, xp_change |-> 0, xp_after |-> new.xp,
     keys_before |-> old.keys, keys_change |-> new.keys - old.keys,
     keys_after |-> new.keys, new_earn_per_sec |-> new.earn_per_sec]

\* LevelUp that spends the XP of the threshold
LevelUpSpendsXp(bal) ==
    [bal EXCEPT !.user_level = @ + 1,
                !.earn_per_sec = user_levels[bal.user_level + 1].gold_per_sec,
                !.keys = @ + user_levels[bal.user_level + 1].keys_reward,
                !.xp = @ - user_levels[bal.user_level + 1].xp_required]

\* one level gained
LevelUp(bal) ==
    [bal EXCEPT !.user_level = @ + 1,
                !.earn_per_sec = user_levels[bal.user_level + 1].gold_per_sec,
                !.keys = @ + user_levels[bal.user_level + 1].keys_reward]

\* TryUpgradeCharacter that gains one level at most
TryUpgradeCharacterOnce(tt, bal, acts) ==
    IF bal.user_level < Max(DOMAIN user_levels)
        THEN IF bal.user_level + 1 \notin DOMAIN user_levels
                THEN [balance |-> bal, actions |-> acts, raised |-> TRUE]
             ELSE IF bal.xp >= user_levels[bal.user_level + 1].xp_required
                THEN [balance |-> LevelUp(bal),
                      actions |-> Append(acts, LevelUpAction(tt, bal, LevelUp(bal))),
                      raised |-> FALSE]
             ELSE [balance |-> bal, actions |-> acts, raised |-> FALSE]
        ELSE [balance |-> bal, actions |-> acts, raised |-> FALSE]

RECURSIVE TryUpgradeCharacter(_, _, _)
\* _try_upgrade_character from the balance bal with the actions acts recorded
\* so far; raised: the level table has no entry for user_level + 1 (KeyError)
TryUpgradeCharacter(tt, bal, acts) ==
    IF bal.user_level < Max(DOMAIN user_levels)
        THEN IF bal.user_level + 1 \notin DOMAIN user_levels
                THEN [balance |-> bal, actions |-> acts, raised |-> TRUE]
             ELSE IF bal.xp >= user_levels[bal.user_level + 1].xp_required
                THEN TryUpgradeCharacter(tt, LevelUp(bal),
                                         Append(acts, LevelUpAction(tt, bal, LevelUp(bal))))
             ELSE [balance |-> bal, actions |-> acts, raised |-> FALSE]
        ELSE [balance |-> bal, actions |-> acts, raised |-> FALSE]

\* UpgradeAction stamped with the end of the cooldown it starts
UpgradeActionStampsCooldownEnd(tt, index, loc, old, new) ==
    [type |-> "location_upgrade", timestamp |-> tt + cooldowns[loc.current_level + 1],
     location_id |-> index, new_level |-> loc.current_level + 1,
     gold_before |-> old.gold, gold_change |-> Whole(0 - GetUpgradeCost(loc)),
     gold_after |-> new.gold,
     xp_before |-> old.xp, xp_change |-> new.xp - old.xp, xp_after |-> new.xp,
     keys_before |-> old.keys, keys_change |-> new.keys - old.keys, keys_after |-> new.keys]

\* the action record of an upgrade of location index at tt
UpgradeAction(tt, index, loc, old, new) ==
    [type |-> "location_upgrade", timestamp |-> tt,
     location_id |-> index, new_level |-> loc.current_level + 1,
     gold_before |-> old.gold, gold_change |-> Whole(0 - GetUpgradeCost(loc)),
     gold_after |-> new.gold,
     xp_before |-> old.xp, xp_change |-> new.xp - old.xp, xp_after |-> new.xp,
     keys_before |-> old.keys, keys_change |-> new.keys - old.keys, keys_after |-> new.keys]

\* Charge with the cost of the level the location already has
ChargeCurrentLevel(bal, loc) ==
    [bal EXCEPT !.gold = FloatAdd(@, Whole(0 - (IF loc.current_level \in DOMAIN loc.levels
                                       THEN loc.levels[loc.current_level].cost ELSE 0))),
                !.xp = @ + GetUpgradeXpReward(loc),
                !.keys = @ + GetUpgradeKeysReward(loc)]

\* the balance after paying for the next level of loc and taking its rewards
Charge(bal, loc) ==
    [bal EXCEPT !.gold = FloatAdd(@, Whole(0 - GetUpgradeCost(loc))),
                !.xp = @ + GetUpgradeXpReward(loc),
                !.keys = @ + GetUpgradeKeysReward(loc)]

\* Upgraded with the location closed only above its highest level
UpgradedClosesLate(loc, tt) ==
    [loc EXCEPT !.current_level = @ + 1,
                !.available = IF loc.current_level + 1 > Max(DOMAIN loc.levels)
                                 THEN FALSE ELSE @,
                !.cooldown_until = tt + cooldowns[loc.current_level + 1]]

\* the location after an upgrade at tt
Upgraded(loc, tt) ==
    [loc EXCEPT !.current_level = @ + 1,
                !.available = IF loc.current_level + 1 >= Max(DOMAIN loc.levels)
                                 THEN FALSE ELSE @,
                !.cooldown_until = tt + cooldowns[loc.current_level + 1]]

\* the candidate is passed over by the policy, the level gate or the price
Skipped(index) ==
    \/ simulation_algorithm = "sequential" /\ ~PreviousLocationsMaxed(index)
    \/ balance.user_level < locations[index].min_character_level
    \/ FloatLess(balance.gold, Whole(GetUpgradeCost(locations[index])))

\* Raise with the exception leaving simulate: the main loop is over
RaiseAborts ==
    /\ pc' = "done"
    /\ timestamp' = timestamp
    /\ queue' = << >>

\* the exception of _do_actions reaches simulate: no State is appended and the
\* clock advances
Raise ==
    /\ pc' = "loop"
    /\ timestamp' = timestamp + 1
    /\ queue' = << >>

\* one iteration of the for loop over sorted_locations
PassStep ==
    /\ pc = "pass"
    /\ queue # << >>
    /\ LET index == Head(queue)
           location == locations[index]
       IN  IF Skipped(index)
              THEN /\ queue' = Tail(queue)
                   /\ UNCHANGED << balance, locations, history, any_upgrade_made,
                                   pc, timestamp >>
           ELSE IF location.current_level + 1 \notin DOMAIN cooldowns
              THEN /\ Raise
                   /\ UNCHANGED << balance, locations, history, any_upgrade_made >>
           ELSE LET paid == Charge(balance, location)
                    up == UpgradeAction(t, index, location, balance, paid)
                    res == TryUpgradeCharacter(t, paid, << up >>)
                IN  /\ balance' = res.balance
                    /\ locations' = [locations EXCEPT ![index] = Upgraded(location, t)]
                    /\ history' = AppendActions(history, res.actions)
                    /\ IF res.raised
                          THEN Raise /\ UNCHANGED any_upgrade_made
                          ELSE /\ any_upgrade_made' = TRUE
                               /\ queue' = IF simulation_algorithm = "first_available"
                                              THEN << >> ELSE Tail(queue)
                               /\ UNCHANGED << pc, timestamp >>
    /\ UNCHANGED << config, tapping_config, stop_reason, t, session_end, response,
                    runs, instance_runs, first_response, first_order >>
    /\ UNCHANGED tapvars

\* the for loop is over: next iteration of the session loop, or skip / break
PassEnd ==
    /\ pc = "pass"
    /\ queue = << >>
    /\ IF any_upgrade_made THEN pc' = "burst" /\ t' = t ELSE SkipOrBreak
    /\ UNCHANGED << config, balance, locations, tapping_config, timestamp, history,
                    stop_reason, session_end, queue, any_upgrade_made, response,
                    runs, instance_runs, first_response, first_order >>
    /\ UNCHANGED tapvars

\* _do_actions returns; simulate appends the State of this check-in and
\* advances the clock
SessionClose ==
    /\ pc = "close"
    /\ history' = Append(history, StateRecord(timestamp, balance, locations))
    /\ timestamp' = timestamp + 1
    /\ pc' = "loop"
    /\ UNCHANGED << config, balance, locations, tapping_config, stop_reason, t,
                    session_end, queue, any_upgrade_made, response, runs,
                    instance_runs, first_response, first_order >>
    /\ UNCHANGED tapvars

Next ==
    \/ RunSimulation
    \/ NewSimulator
    \/ IdleTick
    \/ CheckIn
    \/ BurstTop
    \/ PassStep
    \/ PassEnd
    \/ SessionClose
    \/ LoopExit

Spec == Init /\ [][Next]_vars

\* the steps of Workflow.simulate between its call and its return
SimulateStep ==
    \/ IdleTick
    \/ CheckIn
    \/ BurstTop
    \/ PassStep
    \/ PassEnd
    \/ SessionClose
    \/ LoopExit

\* simulate is sequential code: once called it keeps executing, so a step of
\* it that stays possible is taken; nothing forces a caller to run again
FairSpec == Init /\ [][Next]_vars /\ WF_vars(SimulateStep)

----------------------------------------------------------------------------
\* TappingEngine(config), and the call simulate_sessions(session_times,
\* session_duration) on it

\* no Simulator exists
NoConfig == [present |-> FALSE]

\* TappingEngine.__init__, and the arguments the call will get
TapInit ==
    /\ config = NoConfig
    /\ first_order = << >>
    /\ WorkflowIdle
    /\ tap_config \in TapConfigs
    /\ current_energy = Tenths(tap_config.max_energy_capacity)
    /\ days_data = << >>
    /\ session_times \in SessionTimeLists
    /\ session_duration \in SessionDurations
    /\ TapArguments(session_times, session_duration)
    /\ tap_pc = "ready"
    /\ NoCall

\* SimulateSessions that does not look at is_tapping
SimulateSessionsAlways ==
    /\ tap_pc = "ready"
    /\ days_data' = << >>
    /\ current_energy' = Tenths(tap_config.max_energy_capacity)
    /\ session_times' = SortList(session_times)
    /\ last_session_end' = 0
    /\ session_idx' = 1
    /\ tap_pc' = "for"
    /\ UNCHANGED << result, session, remaining_time, current_time, active_tapping,
                    total_taps_in_session, rest_i >>
    /\ UNCHANGED << tap_config, session_duration >>
    /\ UNCHANGED wfvars

\* simulate_sessions up to the for loop: the early return when tapping is
\* off; otherwise the reset of the engine and session_times.sort()
SimulateSessions ==
    /\ tap_pc = "ready"
    /\ IF ~tap_config.is_tapping
          THEN /\ result' = << >>
               /\ tap_pc' = "returned"
               /\ UNCHANGED << days_data, current_energy, session_times,
                               last_session_end, session_idx >>
          ELSE /\ days_data' = << >>
               /\ current_energy' = Tenths(tap_config.max_energy_capacity)
               /\ session_times' = SortList(session_times)
               /\ last_session_end' = 0
               /\ session_idx' = 1
               /\ tap_pc' = "for"
               /\ UNCHANGED result
    /\ UNCHANGED << session, remaining_time, current_time, active_tapping,
                    total_taps_in_session, rest_i >>
    /\ UNCHANGED << tap_config, session_duration >>
    /\ UNCHANGED wfvars

\* the for loop is over: return self.days_data
SessionsDone ==
    /\ tap_pc = "for"
    /\ session_idx > Len(session_times)
    /\ result' = days_data
    /\ tap_pc' = "returned"
    /\ UNCHANGED << tap_config, current_energy, days_data, session_times,
                    session_duration, last_session_end, session_idx, session,
                    remaining_time, current_time, active_tapping,
                    total_taps_in_session, rest_i >>
    /\ UNCHANGED wfvars

\* the position after the while loop test of _simulate_session
AfterSecond(left) == IF left > 0 THEN "tapping" ELSE "resting"

\* the head of the for loop: the recovery since the previous session, and
\* _simulate_session up to its while loop
SessionStart ==
    /\ tap_pc = "for"
    /\ session_idx <= Len(session_times)
    /\ LET session_start == session_times[session_idx]
           session_duration_sec == session_duration * 60
           e == IF last_session_end > 0
                   THEN RecoveredBetween(tap_config, current_energy,
                                         session_start - last_session_end)
                   ELSE current_energy
       IN  /\ current_energy' = e
           /\ session' = TapSession(session_start, session_duration_sec, e)
           /\ remaining_time' = Min({ session_duration_sec, MaxTappingTime(tap_config) })
           /\ current_time' = session_start
           /\ tap_pc' = AfterSecond(remaining_time')
    /\ active_tapping' = TRUE
    /\ total_taps_in_session' = 0
    /\ rest_i' = 0
    /\ UNCHANGED << tap_config, days_data, session_times, session_duration,
                    last_session_end, session_idx, result >>
    /\ UNCHANGED wfvars

\* one second of the while loop of _simulate_session: the taps, the recovery
\* and the energy_history entry; reading gold_per_tap from a configuration
\* without it raises out of simulate_sessions
TapSecond ==
    /\ tap_pc = "tapping"
    /\ remaining_time > 0
    /\ LET taps == IF active_tapping /\ current_energy > 0
                      THEN TapsPerSecond(tap_config, current_energy, total_taps_in_session)
                      ELSE 0
           tapped == active_tapping /\ current_energy > 0 /\ taps > 0
           e == IF tapped THEN current_energy - taps ELSE current_energy
           total == IF tapped THEN total_taps_in_session + taps ELSE total_taps_in_session
       IN  IF tapped /\ "gold_per_tap" \notin DOMAIN tap_config
              THEN /\ current_energy' = e
                   /\ total_taps_in_session' = total
                   /\ session' = [session EXCEPT !.energy_used = @ + taps,
                                                 !.taps_count = @ + taps]
                   /\ tap_pc' = "raised"
                   /\ UNCHANGED << remaining_time, current_time, active_tapping >>
              ELSE /\ current_energy' = Recovered(tap_config, e)
                   /\ total_taps_in_session' = total
                   /\ active_tapping' =
                         IF ~(active_tapping /\ current_energy > 0) THEN active_tapping
                         ELSE IF ~tapped THEN FALSE
                         ELSE ~(\/ e <= 0
                                \/ /\ tap_config.max_energy_capacity <= 700
                                   /\ total >= Tenths(MaxTapsForBeginners(tap_config)))
                   /\ current_time' = current_time + 1
                   /\ remaining_time' = remaining_time - 1
                   /\ session' =
                         [session EXCEPT
                            !.energy_used = IF tapped THEN @ + taps ELSE @,
                            !.taps_count = IF tapped THEN @ + taps ELSE @,
                            !.gold_earned = IF tapped THEN @ + taps * tap_config.gold_per_tap
                                                      ELSE @,
                            !.energy_history = Append(@, << current_time', current_energy' >>)]
                   /\ tap_pc' = AfterSecond(remaining_time')
    /\ UNCHANGED << tap_config, days_data, session_times, session_duration,
                    last_session_end, session_idx, rest_i, result >>
    /\ UNCHANGED wfvars

\* one second of the closing for loop of _simulate_session: recovery only
RestSecond ==
    /\ tap_pc = "resting"
    /\ rest_i < session.duration - MaxTappingTime(tap_config)
    /\ current_time' = current_time + 1
    /\ current_energy' = Recovered(tap_config, current_energy)
    /\ session' = [session EXCEPT
                     !.energy_history = Append(@, << current_time', current_energy' >>)]
    /\ rest_i' = rest_i + 1
    /\ UNCHANGED << tap_config, days_data, session_times, session_duration, tap_pc,
                    last_session_end, session_idx, remaining_time, active_tapping,
                    total_taps_in_session, result >>
    /\ UNCHANGED wfvars

\* _simulate_session returns: the session is added to its day
SessionEnd ==
    /\ tap_pc = "resting"
    /\ rest_i >= session.duration - MaxTappingTime(tap_config)
    /\ last_session_end' = session.start_time + session.duration
    /\ days_data' = AddSession(days_data, session.start_time \div Day, session)
    /\ session_idx' = session_idx + 1
    /\ tap_pc' = "for"
    /\ UNCHANGED << tap_config, current_energy, session_times, session_duration,
                    session, remaining_time, current_time, active_tapping,
                    total_taps_in_session, rest_i, result >>
    /\ UNCHANGED wfvars

TapNext ==
    \/ SimulateSessions
    \/ SessionsDone
    \/ SessionStart
    \/ TapSecond
    \/ RestSecond
    \/ SessionEnd

TapSpec == TapInit /\ [][TapNext]_vars

----------------------------------------------------------------------------
\* Observations on the history

RECURSIVE AllActions(_)
\* the actions of all States of the history h, in recording order
AllActions(h) == IF h = << >> THEN << >> ELSE Head(h).actions \o AllActions(Tail(h))

\* the location_upgrade actions of location i in the history h
UpgradesOf(h, i) ==
    SelectSeq(AllActions(h), LAMBDA a : a.type = "location_upgrade" /\ a.location_id = i)

\* the actions a step appends to the open State of the history
NewActions ==
    IF Len(history) > 0 /\ Len(history') = Len(history)
        THEN SubSeq(history'[Len(history)].actions,
                    Len(history[Len(history)].actions) + 1,
                    Len(history'[Len(history)].actions))
        ELSE << >>

\* a step of the engine inside one run (neither a new Simulator nor a new run)
EngineStep == pc \in {"loop", "burst", "pass", "close"}

\* the step upgrades location i
UpgradeStep(i) ==
    /\ pc = "pass"
    /\ locations'[i].current_level # locations[i].current_level

RECURSIVE SumXp(_, _)
\* the XP all levels of the level table lv pay together
SumXp(lv, S) ==
    IF S = {} THEN 0 ELSE LET k == Min(S) IN lv[k].xp_reward + SumXp(lv, S \ {k})

\* two locations, the second behind character level 2, and the XP of the
\* first location together with the starting XP stays below the threshold of
\* user level 2
GateBlocked(cfg) ==
    /\ DOMAIN cfg.locations = {1, 2}
    /\ RarityOf(cfg, 1).user_level_required = 1
    /\ RarityOf(cfg, 2).user_level_required = 2
    /\ 2 \in DOMAIN cfg.user_levels
    /\ cfg.economy.starting_balance.xp
         + SumXp(cfg.locations[1].levels, DOMAIN cfg.locations[1].levels)
           < cfg.user_levels[2].xp_required

----------------------------------------------------------------------------
\* C1: for a two-location configuration whose second location is behind a
\* character level that can never be reached, simulate has returned by the
\* time the clock reaches the horizon, and its stop_reason reports the level
\* gate.
C1_GateBlockTerminates ==
    (GateBlocked(config) /\ timestamp >= MaxTime)
        => (pc = "done" /\ stop_reason.kind = "gate")

\* what the engine does instead: with the gate closed for good, simulate never
\* returns
C1_GateBlockNeverReturns == GateBlocked(config) => pc # "done"

\* C2: a location is upgraded only while it is available, the player has the
\* character level it requires, its cooldown has ended at the instant t of
\* the action, and the gold covers the cost of the level bought; the recorded
\* action carries that instant and that gold as gold_before.
C2_UpgradeLegality ==
    [][ \A i \in DOMAIN locations :
          UpgradeStep(i) =>
            /\ locations[i].available
            /\ balance.user_level >= locations[i].min_character_level
            /\ t >= locations[i].cooldown_until
            /\ ~FloatLess(balance.gold,
                          Whole(locations[i].levels[locations'[i].current_level].cost))
            /\ NewActions # << >>
            /\ NewActions[1].type = "location_upgrade"
            /\ NewActions[1].location_id = i
            /\ NewActions[1].new_level = locations'[i].current_level
            /\ NewActions[1].timestamp = t
            /\ NewActions[1].gold_before = balance.gold ]_vars

\* a second-level upgrade made after a fast-forward to the end of a cooldown,
\* under the first-available policy
C2_Witness ==
    /\ simulation_algorithm = "first_available"
    /\ \E k \in 1..Len(AllActions(history)) :
          /\ AllActions(history)[k].type = "location_upgrade"
          /\ AllActions(history)[k].new_level = 2
          /\ AllActions(history)[k].timestamp % Day = 10

\* C3: once an action has been recorded and fully processed, no level-up is
\* pending: xp is below the threshold of the next user level unless the
\* player is at the highest level of the table.
C3_NoPendingLevelUp ==
    (EngineStep /\ instance_runs = 1 /\ AllActions(history) # << >>)
        => \/ balance.user_level = Max(DOMAIN user_levels)
           \/ balance.xp < user_levels[balance.user_level + 1].xp_required

\* the state right after the prologue of simulate
RunStart ==
    /\ pc = "loop"
    /\ timestamp = 0
    /\ Len(history) = 1
    /\ history[1].actions = << >>

\* C4: every run starts from a balance and locations made fresh from the
\* configuration, and a second run on the same Simulator returns the history
\* of the first.
C4_FreshRun ==
    /\ RunStart =>
         /\ balance.user_level = 1
         /\ balance.earn_per_sec = user_levels[1].gold_per_sec
         /\ balance.gold = Whole(economy.starting_balance.gold)
         /\ balance.xp = economy.starting_balance.xp
         /\ balance.keys = economy.starting_balance.keys
         /\ \A i \in DOMAIN locations :
               locations[i].current_level = 0 /\ locations[i].available
    /\ (pc = "done" /\ instance_runs = 2)
         => response.history = first_response.history

C6_StopReasonExclusive ==
    pc = "done" =>
        /\ (stop_reason.kind = "limit") <=> (\A i \in DOMAIN locations : ~locations[i].available)
        /\ stop_reason.kind = "limit" => stop_reason.location = Max(DOMAIN locations)
        /\ response.stop_reason = stop_reason

\* simulate has returned for a catalog of two locations
C6_Witness ==
    /\ pc = "done"
    /\ stop_reason.kind = "limit"
    /\ stop_reason.location = 2
    /\ \A i \in DOMAIN locations : ~locations[i].available

\* C7: gold goes down only in a step that upgrades a location, and then by
\* exactly the configured cost of the level bought; every recorded action
\* that is no location_upgrade leaves gold at least as high as it was, and a
\* location_upgrade has gold_after = gold_before - cost.
C7_GoldDecrease ==
    [][ EngineStep =>
          /\ FloatLess(balance'.gold, balance.gold) =>
               \E i \in DOMAIN locations :
                  /\ UpgradeStep(i)
                  /\ balance'.gold
                       = FloatAdd(balance.gold,
                           Whole(0 - locations[i].levels[locations'[i].current_level].cost))
          /\ \A k \in 1..Len(NewActions) :
               LET a == NewActions[k] IN
               /\ a.gold_after = FloatAdd(a.gold_before, a.gold_change)
               /\ IF a.type = "location_upgrade"
                     THEN a.gold_after = FloatAdd(a.gold_before,
                            Whole(0 - locations[a.location_id].levels[a.new_level].cost))
                     ELSE ~FloatLess(a.gold_after, a.gold_before) ]_vars

\* gold has gone down by the cost of a second level, and passive income was
\* recorded
C7_Witness ==
    /\ \E k \in 1..Len(AllActions(history)) :
          /\ AllActions(history)[k].type = "location_upgrade"
          /\ AllActions(history)[k].new_level = 2
          /\ AllActions(history)[k].gold_change = Whole(0 - 300)
    /\ \E k \in 1..Len(AllActions(history)) :
          AllActions(history)[k].type = "passive_income"

\* the balances of consecutive States of the history h never go down
HistoryMonotone(h) ==
    \A k \in 1..(Len(h) - 1) :
        /\ h[k + 1].balance.xp >= h[k].balance.xp
        /\ h[k + 1].balance.keys >= h[k].balance.keys
        /\ h[k + 1].balance.user_level >= h[k].balance.user_level

\* C8: xp, keys and user_level never go down, from one step of the engine to
\* the next and from one State of the history to the next.
C8_Monotone ==
    [][ EngineStep =>
          /\ balance'.xp >= balance.xp
          /\ balance'.keys >= balance.keys
          /\ balance'.user_level >= balance.user_level
          /\ HistoryMonotone(history') ]_vars

\* a history of at least three States over which xp, keys and user_level grew
C8_Witness ==
    /\ Len(history) >= 3
    /\ history[Len(history)].balance.xp > history[1].balance.xp
    /\ history[Len(history)].balance.keys > history[1].balance.keys
    /\ history[Len(history)].balance.user_level > history[1].balance.user_level

\* C9: every location_upgrade action pays the location's key reward if its
\* new_level is the highest level of the location and no keys otherwise, and
\* a complete run holds exactly one key-paying upgrade per location.
C9_KeyRewardOnce ==
    /\ \A k \in 1..Len(AllActions(history)) :
          LET a == AllActions(history)[k] IN
          a.type = "location_upgrade" =>
             a.keys_change =
                IF a.new_level = Max(DOMAIN config.locations[a.location_id].levels)
                   THEN RarityOf(config, a.location_id).keys_reward ELSE 0
    /\ pc = "done" =>
          \A i \in DOMAIN locations :
             Len(SelectSeq(UpgradesOf(response.history, i),
                           LAMBDA a : a.keys_change = locations[i].keys)) = 1

\* a complete run over two locations of two levels each
C9_Witness ==
    /\ pc = "done"
    /\ DOMAIN locations = {1, 2}
    /\ \A i \in DOMAIN locations : Len(UpgradesOf(response.history, i)) = 2

\* current_level within the level table, and available exactly below its top
LocationsInRange(locs) ==
    \A i \in DOMAIN locs :
        /\ locs[i].current_level >= 0
        /\ locs[i].current_level <= Max(DOMAIN locs[i].levels)
        /\ locs[i].available <=> (locs[i].current_level < Max(DOMAIN locs[i].levels))

\* C10: within a run every location's current_level lies between 0 and the
\* highest key of its level table, the location is available exactly while
\* current_level is below that key, and a location that is not available
\* stays as it is: not available, same current_level, same cooldown_until.
C10_LocationLifeCycle ==
    [][ EngineStep =>
          /\ LocationsInRange(locations)
          /\ LocationsInRange(locations')
          /\ \A i \in DOMAIN locations :
                ~locations[i].available => locations'[i] = locations[i] ]_vars

\* a maxed location is followed through a later session of the same run
C10_Witness ==
    /\ pc = "burst"
    /\ timestamp >= Day
    /\ \E i \in DOMAIN locations :
          /\ ~locations[i].available
          /\ locations[i].current_level = 2
          /\ locations[i].cooldown_until < timestamp

\* the fields of a location_upgrade action that extract_location_data and
\* extract_upgrades_timeline read
UpgradeFieldsRead == {"location_id", "new_level", "cost", "reward_xp", "reward_keys"}

\* C11: every location_upgrade action carries location_id, new_level, cost,
\* reward_xp and reward_keys, the fields the dashboard extraction reads, and
\* every level_up action carries old_level and new_level.
C11_ActionFields ==
    \A k \in 1..Len(history) : \A n \in 1..Len(history[k].actions) :
        LET a == history[k].actions[n] IN
        /\ a.type = "location_upgrade" => UpgradeFieldsRead \subseteq DOMAIN a
        /\ a.type = "level_up" => {"old_level", "new_level"} \subseteq DOMAIN a

\* the State s closes the period its actions were recorded in: its balance is
\* the balance after its last action, and its actions lie between the snapshot
\* instant of the State before it (prev) and its own
ClosesItsPeriod(s, prev) ==
    s.actions # << >> =>
        LET last == s.actions[Len(s.actions)] IN
        /\ s.balance.gold = last.gold_after
        /\ s.balance.xp = last.xp_after
        /\ s.balance.keys = last.keys_after
        /\ \A n \in 1..Len(s.actions) :
              s.actions[n].timestamp <= s.timestamp /\ s.actions[n].timestamp >= prev

\* C12: each State of the returned history lists exactly the actions recorded
\* between the previous State's snapshot and its own, so that a State with
\* actions has the gold, xp and keys of its last action's *_after values.
C12_ActionsBelongToState ==
    pc = "done" =>
        \A k \in 1..Len(response.history) :
            ClosesItsPeriod(response.history[k],
                            IF k = 1 THEN 0 ELSE response.history[k - 1].timestamp)

\* the scheduled check-in instant immediately before tt, on tt's day or the
\* day before it (0 - 1 when there is none)
PrecedingInstant(tt) ==
    LET d == tt \div Day
        all == { dd * Day + c : dd \in {d - 1, d}, c \in SeqToSet(check_schedule) }
        earlier == { x \in all : x >= 0 /\ x < tt }
    IN  IF earlier = {} THEN 0 - 1 ELSE Max(earlier)

\* the passive_income actions among the actions acts
PassiveIn(acts) == SelectSeq(acts, LAMBDA a : a.type = "passive_income")

\* C13: at every check-in other than the first of the run, gold grows by
\* earn_per_sec times the seconds since the immediately preceding scheduled
\* check-in instant (the last one of the previous day when this is the first
\* of its day) and one passive_income action records it; the first check-in
\* of the run pays no passive income.
C13_PassiveIncome ==
    [][ (pc = "loop" /\ pc' = "burst") =>
          LET p == PrecedingInstant(timestamp)
              paid == PassiveIn(NewActions)
          IN  IF p < 0
                  THEN paid = << >> /\ balance'.gold = balance.gold
                  ELSE /\ Len(paid) = 1
                       /\ paid[1].timestamp = timestamp
                       /\ paid[1].gold_change = Whole(balance.earn_per_sec * (timestamp - p))
                       /\ paid[1].gold_before = balance.gold
                       /\ paid[1].gold_after = balance'.gold
                       /\ balance'.gold
                             = FloatAdd(balance.gold,
                                        Whole(balance.earn_per_sec * (timestamp - p))) ]_vars

\* the first check-in of the second day has been paid for the time since the
\* last check-in of the first day, by a player who earns more than at level 1
C13_Witness ==
    /\ pc = "burst"
    /\ Len(check_schedule) = 2
    /\ timestamp >= Day
    /\ IsFirstSessionOfDay(timestamp)
    /\ balance.earn_per_sec > 1
    /\ LET acts == history[Len(history)].actions IN
       \E n \in 1..Len(acts) :
          /\ acts[n].type = "passive_income"
          /\ acts[n].timestamp = timestamp
          /\ acts[n].gold_change
                = Whole(balance.earn_per_sec * (timestamp - PrecedingInstant(timestamp)))
          /\ FloatLess(acts[n].gold_change, Whole(balance.earn_per_sec * Day))

\* config.tapping asks for tapping income
TappingOn == config.tapping.present /\ config.tapping.is_tapping

\* the tapping_income actions among the actions acts
TappingIn(acts) == SelectSeq(acts, LAMBDA a : a.type = "tapping_income")

\* C14: in a run started by Simulator.run_simulation with
\* config.tapping.is_tapping = True, a tapping_income action is recorded at
\* the first check-in of every day, and at no other check-in.
C14_TappingIncome ==
    TappingOn =>
        /\ (pc \in {"burst", "pass", "close"} /\ IsFirstSessionOfDay(timestamp)) =>
              \E n \in 1..Len(history[Len(history)].actions) :
                  LET a == history[Len(history)].actions[n] IN
                  a.type = "tapping_income" /\ a.timestamp = timestamp
        /\ LET taps == TappingIn(AllActions(history)) IN
           \A n \in 1..Len(taps) : IsFirstSessionOfDay(taps[n].timestamp)

\* the candidate at the head of the pass has passed the policy, the level gate
\* and the price, and the cooldown table has no entry for its next level
MissingCooldown ==
    /\ pc = "pass"
    /\ queue # << >>
    /\ ~Skipped(Head(queue))
    /\ locations[Head(queue)].current_level + 1 \notin DOMAIN cooldowns

\* C15: when the processing of a timestamp raises (here: the cooldown table
\* lacks the level being bought), simulate goes on: no State is appended for
\* that timestamp, nothing is returned, the clock advances by one and the
\* main loop continues with the locations still to be upgraded.
C15_FaultSwallowed ==
    [][ MissingCooldown =>
          /\ pc' = "loop"
          /\ timestamp' = timestamp + 1
          /\ Len(history') = Len(history)
          /\ response' = response
          /\ stop_reason' = stop_reason
          /\ balance' = balance
          /\ locations' = locations
          /\ AnyAvailable' ]_vars

\* every check-in of the first day has raised (no State but the initial one),
\* and the first check-in of the second day is processed: its passive income
\* is recorded and its session is open
C15_Witness ==
    /\ pc = "burst"
    /\ timestamp >= Day
    /\ Len(history) = 1
    /\ 2 \notin DOMAIN cooldowns
    /\ \E n \in 1..Len(history[1].actions) :
          /\ history[1].actions[n].type = "passive_income"
          /\ history[1].actions[n].timestamp = timestamp
    /\ \E i \in DOMAIN locations : locations[i].current_level = 1 /\ locations[i].available

\* the example: 1000 gold, one common location of one level (cost 100, xp 10),
\* cooldown {1: 10}, check_schedule [0], sessions of 60 seconds, sequential
Example(cfg) ==
    /\ cfg.economy.starting_balance.gold = 1000
    /\ cfg.locations = << CommonOne >>
    /\ cfg.location_cooldowns = << 10 >>
    /\ cfg.check_schedule = << 0 >>
    /\ cfg.economy.game_duration = 60
    /\ cfg.simulation_algorithm = "sequential"

\* the location_upgrade actions of the history h
Upgrades(h) == SelectSeq(AllActions(h), LAMBDA a : a.type = "location_upgrade")

\* C16: in the example the run records exactly one location_upgrade, at
\* timestamp 0, with gold_before 1000 and gold_after 900; the location is
\* not available from then on; the run ends at once: the main loop sees no
\* available location at timestamp 1 and returns.
C16_Example ==
    (Example(config) /\ pc # "idle") =>
        LET ups == Upgrades(history) IN
        /\ timestamp <= 1
        /\ Len(ups) <= 1
        /\ ups # << >> =>
              /\ ups[1].timestamp = 0
              /\ ups[1].location_id = 1
              /\ ups[1].gold_before = Whole(1000)
              /\ ups[1].gold_after = Whole(900)
              /\ ~locations[1].available
              /\ balance.gold = Whole(900)
        /\ (pc \in {"close", "done"} \/ timestamp = 1) => Len(ups) = 1
        /\ (pc = "loop" /\ timestamp = 1) => ~AnyAvailable
        /\ pc = "done" =>
              /\ response.timestamp = 1
              /\ Len(Upgrades(response.history)) = 1
              /\ response.stop_reason.kind = "limit"

\* the example has run to its end
C16_Witness ==
    /\ Example(config)
    /\ pc = "done"
    /\ response.timestamp = 1
    /\ Len(Upgrades(response.history)) = 1
    /\ Upgrades(response.history)[1].gold_after = Whole(900)

\* every location below index is maxed: not available, at the top of its table
LowerMaxed(locs, index) ==
    \A j \in DOMAIN locs :
        j < index => /\ ~locs[j].available
                     /\ locs[j].current_level = Max(DOMAIN locs[j].levels)

\* the ids of the upgrades to level 1 in the history h, in recording order
FirstUpgradeIds(h) ==
    LET firsts == SelectSeq(Upgrades(h), LAMBDA a : a.new_level = 1)
    IN  [n \in 1..Len(firsts) |-> firsts[n].location_id]

\* the started locations have all lower ids maxed, and the first upgrades
\* recorded so far are in ascending order of id
StrictUnlockOrder(locs, h) ==
    /\ \A i \in DOMAIN locs : locs[i].current_level > 0 => LowerMaxed(locs, i)
    /\ LET ids == FirstUpgradeIds(h) IN
       \A m, n \in 1..Len(ids) : m < n => ids[m] < ids[n]

\* C18: under the Sequential policy a location is upgraded only when every
\* location with a lower id is unavailable (maxed); so a location with
\* current_level > 0 has all lower ids at their maximum level, and the first
\* upgrades of the locations happen in ascending order of id.
C18_SequentialOrder ==
    [][ (simulation_algorithm = "sequential" /\ EngineStep) =>
          /\ \A i \in DOMAIN locations : UpgradeStep(i) => LowerMaxed(locations, i)
          /\ StrictUnlockOrder(locations, history)
          /\ StrictUnlockOrder(locations', history') ]_vars

\* the second location is started in the session in which it was ready from
\* the beginning and had to wait for the first one to be maxed
C18_Witness ==
    /\ simulation_algorithm = "sequential"
    /\ pc = "pass"
    /\ DOMAIN locations = {1, 2}
    /\ locations[1].current_level = 2
    /\ locations[2].current_level = 1
    /\ FirstUpgradeIds(history) = << 1, 2 >>
    /\ t > timestamp
    /\ Upgrades(history)[Len(Upgrades(history))].timestamp = t

\* the available locations whose cooldown ends after t and before session_end
Pending ==
    { i \in DOMAIN locations :
        locations[i].available /\ t < locations[i].cooldown_until
                               /\ locations[i].cooldown_until < session_end }

\* the session loop has nothing to upgrade at t: the ready set is empty, or a
\* full pass over the ready locations has made no upgrade
NothingToUpgrade ==
    \/ /\ pc = "burst"
       /\ t < session_end
       /\ \A i \in DOMAIN locations :
             ~(locations[i].available /\ locations[i].cooldown_until <= t)
    \/ pc = "pass" /\ queue = << >> /\ ~any_upgrade_made

\* C19: when a session fast-forwards from t to t', because the ready set is
\* empty or a full pass made no upgrade, t' is the least cooldown_until of the
\* available locations with t < cooldown_until < session_end; so
\* t < t' < session_end and no available location's cooldown ends strictly
\* between t and t'. When there is no such location the session loop ends.
C19_FastForward ==
    [][ /\ (pc \in {"burst", "pass"} /\ t' # t) =>
              /\ NothingToUpgrade
              /\ Pending # {}
              /\ t' = Min({ locations[i].cooldown_until : i \in Pending })
              /\ t < t' /\ t' < session_end
              /\ \A i \in DOMAIN locations :
                    locations[i].available =>
                        ~(t < locations[i].cooldown_until /\ locations[i].cooldown_until < t')
              /\ pc' = "burst"
        /\ (NothingToUpgrade /\ Pending # {}) => t' = Min({ locations[i].cooldown_until : i \in Pending })
        /\ (NothingToUpgrade /\ Pending = {}) => (pc' = "close" /\ t' = t) ]_vars

\* the session has skipped to the end of the first location's cooldown after
\* a pass in which the second location, ready all along, could not be bought
C19_Witness ==
    /\ pc = "burst"
    /\ t > timestamp
    /\ t < session_end
    /\ DOMAIN locations = {1, 2}
    /\ locations[1].available /\ locations[1].cooldown_until = t
    /\ locations[2].available /\ locations[2].cooldown_until = 0

\* C20: every action recorded in the session that starts at the check-in
\* instant c (passive_income, tapping_income, location_upgrade, level_up) has
\* a timestamp from c up to, not including, c + session duration, and no
\* upgrade is made at or after session_end.
C20_WithinSession ==
    [][ EngineStep =>
          /\ \A n \in 1..Len(NewActions) :
                /\ NewActions[n].type \in {"passive_income", "tapping_income",
                                           "location_upgrade", "level_up"}
                /\ timestamp <= NewActions[n].timestamp
                /\ NewActions[n].timestamp < timestamp + economy.game_duration
          /\ \A i \in DOMAIN locations :
                UpgradeStep(i) => t < session_end /\ session_end = timestamp + economy.game_duration ]_vars

\* an upgrade and the level-up it pays for are recorded after a fast-forward,
\* later than the check-in and before the end of the session
C20_Witness ==
    /\ pc = "pass"
    /\ t > timestamp
    /\ LET acts == history[Len(history)].actions IN
       /\ Len(acts) >= 2
       /\ acts[Len(acts) - 1].type = "location_upgrade"
       /\ acts[Len(acts)].type = "level_up"
       /\ acts[Len(acts)].timestamp = t
       /\ acts[Len(acts)].timestamp < session_end

\* C17: with is_tapping = False, simulate_sessions returns the empty list,
\* whatever the list of session start times, the session duration and the
\* other tapping parameters: the call never reaches the loop over the
\* sessions, and what it returns is empty.
C17_TappingOffReturnsEmpty ==
    (~tap_config.is_tapping /\ tap_pc # "ready") =>
        /\ tap_pc = "returned"
        /\ result = << >>
        /\ days_data = << >>

\* the call has returned for two unsorted sessions of six minutes, on an
\* engine whose configuration lacks nothing but the permission to tap
C17_Witness ==
    /\ tap_pc = "returned"
    /\ ~tap_config.is_tapping
    /\ "gold_per_tap" \in DOMAIN tap_config
    /\ tap_config.max_energy_capacity = 1000
    /\ session_times = << Day, 0 >>
    /\ session_duration = 6
    /\ result = << >>

\* the level_up actions among the actions acts
LevelUpsIn(acts) == SelectSeq(acts, LAMBDA a : a.type = "level_up")

\* earn_per_sec is the gold_per_sec of the current level, which is in the table
LevelInTable(bal) ==
    /\ bal.user_level <= Max(DOMAIN user_levels)
    /\ bal.earn_per_sec = user_levels[bal.user_level].gold_per_sec

\* C21: the cascade after a location upgrade raises user_level one level at
\* a time until xp is below the threshold of the next level or the top of the
\* table is reached; it records one level_up action per level gained, with
\* new_level = old_level + 1 and exactly that level's keys_reward; and from
\* the start of the run earn_per_sec is the table's gold_per_sec for
\* user_level, which never exceeds the highest key of the table.
C21_LevelUpCascade ==
    [][ EngineStep =>
          LET ups == LevelUpsIn(NewActions) IN
          /\ LevelInTable(balance)
          /\ LevelInTable(balance')
          /\ Len(ups) = balance'.user_level - balance.user_level
          /\ \A n \in 1..Len(ups) :
                /\ ups[n].old_level = balance.user_level + n - 1
                /\ ups[n].new_level = ups[n].old_level + 1
                /\ ups[n].keys_change = user_levels[ups[n].new_level].keys_reward
                /\ ups[n].keys_after = ups[n].keys_before + ups[n].keys_change
                /\ ups[n].new_earn_per_sec = user_levels[ups[n].new_level].gold_per_sec
          /\ Len(ups) > 0 => \E i \in DOMAIN locations : UpgradeStep(i)
          /\ (\E i \in DOMAIN locations : UpgradeStep(i)) =>
                \/ balance'.user_level = Max(DOMAIN user_levels)
                \/ balance'.xp < user_levels[balance'.user_level + 1].xp_required ]_vars

\* one upgrade has taken the player from level 1 to level 3: two level_up
\* actions follow the location_upgrade at the same instant
C21_Witness ==
    /\ pc = "pass"
    /\ balance.user_level = 3
    /\ LET acts == history[Len(history)].actions IN
       /\ Len(acts) >= 3
       /\ acts[Len(acts) - 2].type = "location_upgrade"
       /\ acts[Len(acts) - 1].type = "level_up" /\ acts[Len(acts) - 1].new_level = 2
       /\ acts[Len(acts)].type = "level_up" /\ acts[Len(acts)].new_level = 3
       /\ acts[Len(acts)].timestamp = acts[Len(acts) - 2].timestamp

\* the actions acts are a ledger that starts from the balance start
Ledger(acts, start) ==
    \A n \in 1..Len(acts) :
        LET a == acts[n]
            before == IF n = 1 THEN start
                      ELSE [gold |-> acts[n - 1].gold_after, xp |-> acts[n - 1].xp_after,
                            keys |-> acts[n - 1].keys_after]
        IN  /\ a.gold_after = FloatAdd(a.gold_before, a.gold_change)
            /\ a.xp_after = a.xp_before + a.xp_change
            /\ a.keys_after = a.keys_before + a.keys_change
            /\ a.gold_before = before.gold
            /\ a.xp_before = before.xp
            /\ a.keys_before = before.keys

\* C23: the history is a complete ledger of the balance: over all actions of
\* all States in recording order, after = before + change for gold, xp and
\* keys, the before-values of an action are the after-values of the action
\* before it, and the before-values of the first action are the configured
\* starting balance.
C23_Ledger ==
    pc # "idle" =>
        /\ Ledger(AllActions(history),
                  [economy.starting_balance EXCEPT !.gold = Whole(@)])
        /\ LET acts == AllActions(history) IN
           acts # << >> =>
              /\ balance.gold = acts[Len(acts)].gold_after
              /\ balance.xp = acts[Len(acts)].xp_after
              /\ balance.keys = acts[Len(acts)].keys_after

\* a finished run whose ledger holds income, upgrades and a level-up,
\* recorded over several States
C23_Witness ==
    /\ pc = "done"
    /\ Len(response.history) >= 3
    /\ LET acts == AllActions(response.history) IN
       /\ Len(acts) >= 5
       /\ \E n \in 1..Len(acts) : acts[n].type = "passive_income" /\ FloatLess(Whole(0), acts[n].gold_change)
       /\ \E n \in 1..Len(acts) : acts[n].type = "level_up"
       /\ \E n \in 1..Len(acts) : acts[n].type = "location_upgrade" /\ acts[n].keys_change > 0

\* C25: the timestamp of the returned SimulationResponse is at least the
\* timestamp of every State and of every action of its history.
C25_FinalTimestampCovers ==
    pc = "done" =>
        \A k \in 1..Len(response.history) :
            /\ response.history[k].timestamp <= response.timestamp
            /\ \A n \in 1..Len(response.history[k].actions) :
                  response.history[k].actions[n].timestamp <= response.timestamp

\* the timestamps of the actions acts never go back
NonDecreasing(acts) ==
    \A n \in 1..(Len(acts) - 1) : acts[n].timestamp <= acts[n + 1].timestamp

\* C24: over all actions of all States in recording order the timestamps are
\* non-decreasing, for every check schedule and session duration, also when
\* consecutive check-ins are closer together than a session lasts.
C24_TimestampsNonDecreasing ==
    pc # "idle" => NonDecreasing(AllActions(history))

----------------------------------------------------------------------------
\* validate_simulation_config (src/utils/validation.py): the list of errors

RECURSIVE ValidateLevels(_, _, _, _)
\* the loop of validate_location_config over the sorted level ids todo, with
\* expected the id the loop expects next
ValidateLevels(loc_id, levels, todo, expected) ==
    IF todo = {} THEN << >>
    ELSE LET level_id == Min(todo)
             level == levels[level_id]
         IN  (IF level_id # expected
                 THEN << [error |-> "level_missing", location |-> loc_id, level |-> expected] >>
                 ELSE << >>)
             \o (IF level.cost <= 0
                 THEN << [error |-> "cost_not_positive", location |-> loc_id, level |-> level_id] >>
                 ELSE << >>)
             \o (IF level.xp_reward < 0
                 THEN << [error |-> "xp_negative", location |-> loc_id, level |-> level_id] >>
                 ELSE << >>)
             \o ValidateLevels(loc_id, levels, todo \ {level_id}, expected + 1)

\* validate_location_config
ValidateLocationConfig(loc_id, location, rarity_config) ==
    IF location.rarity \notin DOMAIN rarity_config
        THEN << [error |-> "unknown_rarity", location |-> loc_id] >>
    ELSE IF DOMAIN location.levels = {}
        THEN << [error |-> "no_levels", location |-> loc_id] >>
        ELSE ValidateLevels(loc_id, location.levels, DOMAIN location.levels, 1)

RECURSIVE ValidateLocations(_, _)
\* the errors of the locations of cfg, in the order order of the dictionary
ValidateLocations(cfg, order) ==
    IF order = << >> THEN << >>
    ELSE ValidateLocationConfig(Head(order), cfg.locations[Head(order)],
                                cfg.location_rarity_config)
             \o ValidateLocations(cfg, Tail(order))

\* the errors of the check times of the schedule
ValidateSchedule(schedule) ==
    LET bad == SelectSeq(schedule, LAMBDA c : c < 0 \/ c >= Day)
    IN  [n \in 1..Len(bad) |-> [error |-> "check_time_out_of_day", time |-> bad[n]]]

ValidateSimulationConfig(cfg) ==
    (IF cfg.economy.base_gold_per_sec <= 0
        THEN << [error |-> "base_gold_not_positive"] >> ELSE << >>)
    \o (IF cfg.economy.earn_coefficient <= 0
        THEN << [error |-> "coefficient_not_positive"] >> ELSE << >>)
    \o (IF cfg.economy.game_duration <= 0
        THEN << [error |-> "duration_not_positive"] >> ELSE << >>)
    \o (IF DOMAIN cfg.locations = {} THEN << [error |-> "no_locations"] >> ELSE << >>)
    \o ValidateLocations(cfg, cfg.order)
    \o (IF DOMAIN cfg.user_levels = {} THEN << [error |-> "no_user_levels"] >> ELSE << >>)
    \o (IF 1 \notin DOMAIN cfg.user_levels THEN << [error |-> "no_user_level_1"] >> ELSE << >>)
    \o (IF cfg.check_schedule = << >> THEN << [error |-> "empty_schedule"] >> ELSE << >>)
    \o ValidateSchedule(cfg.check_schedule)

\* the level-up check of the cascade after the upgrade of the candidate at
\* the head of the pass finds no level-table entry for user_level + 1
MissingUserLevel ==
    /\ pc = "pass"
    /\ queue # << >>
    /\ ~Skipped(Head(queue))
    /\ locations[Head(queue)].current_level + 1 \in DOMAIN cooldowns
    /\ TryUpgradeCharacter(t, Charge(balance, locations[Head(queue)]), << >>).raised

\* C26: for every configuration that validate_simulation_config accepts
\* (empty error list) the engine never raises while processing a timestamp:
\* every attempted upgrade finds a cooldown-table entry for its target level
\* and every level-up check finds a level-table entry for user_level + 1.
C26_ValidConfigNeverRaises ==
    ValidateSimulationConfig(config) = << >> =>
        ~MissingCooldown /\ ~MissingUserLevel

----------------------------------------------------------------------------
\* The tapping sessions observed

\* a call of simulate_sessions is under way or over
TapCalled == tap_pc \in {"for", "tapping", "resting", "returned", "raised"}

\* the sessions the engine has recorded in its days
RecordedSessions ==
    UNION { { days_data[d].sessions[k] : k \in 1..Len(days_data[d].sessions) } :
              d \in 1..Len(days_data) }

\* the sessions simulated so far: the recorded ones and the one under way
TapSessions ==
    RecordedSessions \cup (IF session = NoSession THEN {} ELSE {session})

\* the remaining allowed taps of a session after total taps, for the
\* configurations whose taps are limited
AllowedTaps(total) ==
    IF tap_config.max_energy_capacity <= 700
        THEN { Tenths(tap_config.max_energy_capacity) - total,
               Tenths(500 + ((200 * tap_config.max_energy_capacity) \div 700)) - total }
        ELSE {}

\* C27: in every tapping session each second of active tapping consumes
\* min(tap_speed, current_energy, remaining allowed taps) energy units
\* without raising; when the session ends energy_used = taps_count and
\* gold_earned = taps_count x gold_per_tap; once tapping has deactivated,
\* taps_count no longer changes for the rest of the session.
C27_TapAccounting ==
    [][ /\ (tap_pc = "tapping" /\ active_tapping /\ current_energy > 0) =>
              LET taps == Max({ 0, Min({ Tenths(tap_config.tap_speed), current_energy }
                                       \cup AllowedTaps(total_taps_in_session)) })
              IN  /\ tap_pc' # "raised"
                  /\ session'.taps_count = session.taps_count + taps
                  /\ session'.energy_used = session.energy_used + taps
                  /\ current_energy' = Recovered(tap_config, current_energy - taps)
        /\ (tap_pc = "tapping" /\ ~active_tapping) =>
              /\ session'.taps_count = session.taps_count
              /\ ~active_tapping'
        /\ (tap_pc = "resting") => session'.taps_count = session.taps_count
        /\ (tap_pc = "resting" /\ tap_pc' = "for") =>
              /\ session.energy_used = session.taps_count
              /\ IF session.taps_count = 0
                    THEN session.gold_earned = 0
                    ELSE /\ "gold_per_tap" \in DOMAIN tap_config
                         /\ session.gold_earned =
                               session.taps_count * tap_config.gold_per_tap
      ]_vars

\* the energy e is within the capacity of the engine
EnergyInRange(e) == 0 <= e /\ e <= Tenths(tap_config.max_energy_capacity)

\* C28: for every list of session start times, overlapping sessions
\* included, and every duration, current_energy is within
\* [0, max_energy_capacity] at every recorded step of every session.
C28_EnergyWithinCapacity ==
    TapCalled =>
        /\ EnergyInRange(current_energy)
        /\ \A s \in TapSessions :
              \A k \in 1..Len(s.energy_history) : EnergyInRange(s.energy_history[k][2])

\* C29 as stated: for max_energy_capacity <= 700 the per-session tap cap is
\* a value in [500, 700] and no session's taps_count exceeds that cap.
C29_CapInRange ==
    (TapCalled /\ tap_config.max_energy_capacity <= 700) =>
        /\ MaxTapsForBeginners(tap_config) \in 500..700
        /\ \A s \in TapSessions : s.taps_count <= Tenths(MaxTapsForBeginners(tap_config))

\* C29 amended: for max_energy_capacity <= 700 the per-session tap cap is
\* max_energy_capacity itself (at most 700, and below 500 when the capacity
\* is) and no session's taps_count exceeds that cap.
C29_CapIsCapacity ==
    (TapCalled /\ tap_config.max_energy_capacity <= 700) =>
        /\ MaxTapsForBeginners(tap_config) = tap_config.max_energy_capacity
        /\ MaxTapsForBeginners(tap_config) <= 700
        /\ \A s \in TapSessions : s.taps_count <= Tenths(tap_config.max_energy_capacity)

\* a recorded session of a low-capacity configuration below 500 has tapped
\* up to its cap
C29_Witness ==
    /\ tap_pc = "returned"
    /\ tap_config.is_tapping
    /\ tap_config.max_energy_capacity < 500
    /\ \E s \in RecordedSessions : s.taps_count = Tenths(tap_config.max_energy_capacity)

\* C30: simulate_sessions leaves the caller's list of session start times
\* unchanged, same elements in the same order, for every input, unsorted
\* input included.
C30_CallerListUnchanged == [][ session_times' = session_times ]_vars

----------------------------------------------------------------------------
\* Termination

\* the configuration cfg has a non-empty schedule, sessions of one second at
\* least, a positive gold_per_sec at every user level, a cooldown for every
\* location level, and no location asking for more than character level 1
CanFinish(cfg) ==
    /\ cfg.check_schedule # << >>
    /\ cfg.economy.game_duration * 60 >= 1
    /\ \A l \in DOMAIN cfg.user_levels : cfg.user_levels[l].gold_per_sec > 0
    /\ \A i \in DOMAIN cfg.locations :
          /\ DOMAIN cfg.locations[i].levels \subseteq DOMAIN cfg.location_cooldowns
          /\ RarityOf(cfg, i).user_level_required = 1

\* C22: with a non-empty schedule, a session of one second at least, a
\* positive gold_per_sec at every user level, a cooldown entry for every
\* location level and every location open at character level 1, a run that
\* has started eventually reaches a state where no location is available
\* and simulate has returned, under either upgrade policy.
C22_Terminates ==
    (CanFinish(config) /\ pc = "loop") ~> (pc = "done" /\ ~AnyAvailable)

\* a run that began without gold has returned with nothing left to upgrade,
\* after waiting for passive income and cooldowns over more than two days
C22_Witness ==
    /\ CanFinish(config)
    /\ config.economy.starting_balance.gold = 0
    /\ ~config.tapping.present
    /\ pc = "done"
    /\ ~AnyAvailable
    /\ response.timestamp > 2 * Day

====
